---------------------------- MODULE Spec2Model ----------------------------
(***************************************************************************)
(* The quote dashboard of main.js: a click starts a chain of four          *)
(* XMLHttpRequests, each sent from the delay timer that the previous       *)
(* request's onload handler schedules, followed by a final timer.          *)
(*                                                                         *)
(* A JavaScript string is modelled as a sequence of fragments (string      *)
(* literals of the source and data strings of the payload); "+" is \o.     *)
(* String.includes("spinner") is decided fragment by fragment (Includes).  *)
(***************************************************************************)
EXTENDS Integers, Sequences, FiniteSets, TLC

\* Longest quote list the server answers with.
MaxQuotes == 3

\* Number of runs a behaviour starts (clicks that reach the listener).
MaxRuns == 2

\* Values of the two drop-downs (main.js:4-7); the option lists are page markup.
Topics == {"love", "motivational"}
Counts == {"1", "5"}

\* xhr.status values delivered to onload.
Statuses == {200, 404, 500}

\* Quote records {quote, source} the endpoint can return.
QuoteRecords ==
    { [quote |-> "Stay hungry, stay foolish", source |-> "Steve Jobs"],
      [quote |-> "Life is a spinner", source |-> "DJ spinner"] }

\* Texts of an {error: string} payload; the empty string is falsy in "if (data.error)".
ErrorTexts == {"No quotes found", "spinner service down", ""}

\* The fragments of the model that contain the substring "spinner".
SpinnerFragments ==
    { "<div class=\"spinner\"></div>", "Life is a spinner", "DJ spinner",
      "spinner service down" }

RECURSIVE SeqsUpTo(_, _)
SeqsUpTo(S, n) ==
    IF n = 0 THEN {<<>>}
    ELSE LET shorter == SeqsUpTo(S, n - 1)
         IN shorter \cup {Append(q, x) : q \in {s \in shorter : Len(s) = n - 1}, x \in S}

\* xhr.response under responseType "json": an array of quote records, an
\* {error: string} object, another JSON object without an error field, or null
\* when the body is not valid JSON.  A missing error field reads as "".
Payloads ==
    {[kind |-> "list", items |-> q, error |-> ""] : q \in SeqsUpTo(QuoteRecords, MaxQuotes)}
      \cup {[kind |-> "error", items |-> <<>>, error |-> e] : e \in ErrorTexts}
      \cup {[kind |-> "object", items |-> <<>>, error |-> ""],
            [kind |-> "null", items |-> <<>>, error |-> ""]}

Steps == 1..4
Sections == <<"quotes", "authorInfo", "relatedQuotes", "randomQuote">>

VARIABLES
    dom,          \* the page: progress bar, button and the four sections
    console,      \* console.log / console.error calls of the current run
    requests,     \* XMLHttpRequests sent and not yet answered (with their closure)
    timers,       \* setTimeout callbacks scheduled and not yet fired
    sent,         \* steps whose request was sent in the current run, in order
    events,       \* load/error events delivered in the current run, in order
    progressLog,  \* percentages passed to updateProgress in the current run
    rendered,     \* steps whose display function assigned its section in the current run
    lastResponse,    \* kind and error text of the xhr.response an onload handler read last
    runs          \* number of runs started so far

vars == <<dom, console, requests, timers, sent, events, progressLog, rendered, lastResponse, runs>>

-----------------------------------------------------------------------------
(* Strings and markup *)

Includes(html, fragments) == \E i \in DOMAIN html : html[i] \in fragments

SpinnerHtml == <<"<div class=\"spinner\"></div>">>

ErrorDiv(message) == <<"<div class=\"error\">">> \o message \o <<"</div>">>

QuoteItem(quoteItem) ==
    <<"<div class=\"quote-item\">", "<div class=\"quote-text\">\"", quoteItem.quote,
      "\"</div>", "<div class=\"quote-source\">-- ", quoteItem.source, "</div>", "</div>">>

RECURSIVE QuoteItems(_)
QuoteItems(items) ==
    IF items = <<>> THEN <<>> ELSE QuoteItem(Head(items)) \o QuoteItems(Tail(items))

\* The last n elements instead of the first n (slice(-n)).
SliceFromEnd(s, n) == SubSeq(s, IF Len(s) < n THEN 1 ELSE Len(s) - n + 1, Len(s))

Slice(s, n) == SubSeq(s, 1, IF Len(s) < n THEN Len(s) ELSE n)

Threw == [threw |-> TRUE, html |-> <<>>]
Html(h) == [threw |-> FALSE, html |-> h]

\* A test of a field no payload has.
HasErrorNever(data) == FALSE

\* The test "if (data.error)" on a payload that is not null.
HasError(data) == data.error # ""


-----------------------------------------------------------------------------
(* Display functions: the markup each assigns to its section, or Threw     *)
(* when the function raises a TypeError before the assignment (reading     *)
(* .error of null; calling forEach or slice on a non-array object).        *)

DisplayQuotes(quoteData, count) ==
    LET html == <<"<h3>Requested ", count, " quotes:</h3>">>
    IN IF quoteData.kind = "null" THEN Threw
       ELSE IF HasError(quoteData) THEN Html(html \o ErrorDiv(<<quoteData.error>>))
       ELSE IF quoteData.kind # "list" THEN Threw
       ELSE Html(html \o QuoteItems(quoteData.items))

DisplayAuthorInfo(authorData) ==
    LET open == <<"<div class=\"author-card\">">>
        close == <<"</div>">>
    IN IF authorData.kind = "null" THEN Threw
       ELSE IF HasError(authorData)
            THEN Html(open \o ErrorDiv(<<authorData.error>>) \o close)
       ELSE IF authorData.kind = "list" /\ Len(authorData.items) > 0
            THEN Html(open \o <<"<div class=\"author-name\">", authorData.items[1].source,
                                "</div>", "<div class=\"author-bio\">Author information</div>">>
                      \o close)
       ELSE Html(open \o <<"<div class=\"author-name\">Various Authors</div>",
                           "<div class=\"author-bio\">Multiple authors</div>">> \o close)

DisplayRelatedQuotes(relatedQuotes) ==
    LET html == <<"<h3>Related content:</h3>">>
    IN IF relatedQuotes.kind = "null" THEN Threw
       ELSE IF HasError(relatedQuotes)
            THEN Html(html \o ErrorDiv(<<relatedQuotes.error>>))
       ELSE IF relatedQuotes.kind # "list" THEN Threw
       ELSE Html(html \o QuoteItems(Slice(relatedQuotes.items, 2))
                      \o <<"<p>Related quotes would come from a different API endpoint</p>">>)

\* displayRandomQuote picking index 0 instead of length - 1.
DisplayRandomQuoteFirst(randomQuote) ==
    LET html == <<"<h3>Quote of the day:</h3>">>
        note == <<"<p>This would come from a random quote API endpoint.</p>">>
    IN IF randomQuote.kind = "null" THEN Threw
       ELSE IF HasError(randomQuote)
            THEN Html(html \o ErrorDiv(<<randomQuote.error>>))
       ELSE IF randomQuote.kind = "list" /\ Len(randomQuote.items) > 0
            THEN Html(html \o QuoteItem(randomQuote.items[1]) \o note)
       ELSE Html(html \o note)

DisplayRandomQuote(randomQuote) ==
    LET html == <<"<h3>Quote of the day:</h3>">>
        note == <<"<p>This would come from a random quote API endpoint.</p>">>
    IN IF randomQuote.kind = "null" THEN Threw
       ELSE IF HasError(randomQuote)
            THEN Html(html \o ErrorDiv(<<randomQuote.error>>))
       ELSE IF randomQuote.kind = "list" /\ Len(randomQuote.items) > 0
            THEN Html(html \o QuoteItem(randomQuote.items[Len(randomQuote.items)]) \o note)
       ELSE Html(html \o note)

\* The display call of step K's onload handler.
Display(K, response, count) ==
    CASE K = 1 -> DisplayQuotes(response, count)
      [] K = 2 -> DisplayAuthorInfo(response)
      [] K = 3 -> DisplayRelatedQuotes(response)
      [] K = 4 -> DisplayRandomQuote(response)

-----------------------------------------------------------------------------
(* Functions on the page *)

ShowSpinner(d, sectionId) == [d EXCEPT ![sectionId] = SpinnerHtml]

UpdateProgress(d, percentage, text) ==
    [d EXCEPT !.progressFill = percentage, !.progressText = text]

EnableButton(d) == [d EXCEPT !.btnDisabled = FALSE, !.btnText = "Fetch All Data"]

\* resetDashboard without disabling the button.
ResetDashboardNoDisable(d) ==
    LET d1 == ShowSpinner(ShowSpinner(ShowSpinner(ShowSpinner(d,
                  "quotes"), "authorInfo"), "relatedQuotes"), "randomQuote")
    IN UpdateProgress(d1, 0, "Starting to fetch data...")

\* resetDashboard without the spinner of the last section.
ResetDashboardThreeSpinners(d) ==
    LET d1 == ShowSpinner(ShowSpinner(ShowSpinner(d,
                  "quotes"), "authorInfo"), "relatedQuotes")
        d2 == UpdateProgress(d1, 0, "Starting to fetch data...")
    IN [d2 EXCEPT !.btnDisabled = TRUE, !.btnText = "Loading..."]

ResetDashboard(d) ==
    LET d1 == ShowSpinner(ShowSpinner(ShowSpinner(ShowSpinner(d,
                  "quotes"), "authorInfo"), "relatedQuotes"), "randomQuote")
        d2 == UpdateProgress(d1, 0, "Starting to fetch data...")
    IN [d2 EXCEPT !.btnDisabled = TRUE, !.btnText = "Loading..."]

ErrorStatusText == "Error occurred during data fetching"

\* handleError without its loop over the sections.
HandleErrorKeepSpinners(d, errorMessage) ==
    EnableButton(UpdateProgress(d, 0, ErrorStatusText))

\* handleError without the call of enableButton.
HandleErrorNoEnable(d, errorMessage) ==
    LET d1 == UpdateProgress(d, 0, ErrorStatusText)
        over(content) == IF Includes(content, SpinnerFragments)
                         THEN ErrorDiv(errorMessage) ELSE content
    IN [d1 EXCEPT !.quotes = over(@), !.authorInfo = over(@),
                  !.relatedQuotes = over(@), !.randomQuote = over(@)]

\* handleError leaving its loop at the first section it overwrites.
HandleErrorFirstSpinner(d, errorMessage) ==
    LET d1 == EnableButton(UpdateProgress(d, 0, ErrorStatusText))
        first == {i \in 1..4 : /\ Includes(d[Sections[i]], SpinnerFragments)
                               /\ \A j \in 1..(i - 1) : ~Includes(d[Sections[j]], SpinnerFragments)}
    IN [sectionId \in DOMAIN d1 |->
           IF \E i \in first : Sections[i] = sectionId
           THEN ErrorDiv(errorMessage) ELSE d1[sectionId]]

HandleError(d, errorMessage) ==
    LET d1 == EnableButton(UpdateProgress(d, 0, ErrorStatusText))
        over(content) == IF Includes(content, SpinnerFragments)
                         THEN ErrorDiv(errorMessage) ELSE content
    IN [d1 EXCEPT !.quotes = over(@), !.authorInfo = over(@),
                  !.relatedQuotes = over(@), !.randomQuote = over(@)]

-----------------------------------------------------------------------------
(* The texts of the four steps of fetchQuotes *)

StepLog ==
    <<"Step 1: Quotes fetched for topic:", "Step 2: Author details fetched for topic:",
      "Step 3: Related quotes fetched for topic:", "Step 4: Random quote fetched for topic:">>

FinalLog == "Step 5: All data processing complete!"

StepProgressText ==
    <<"Step 1/5: Quotes loaded!", "Step 2/5: Author info loaded!",
      "Step 3/5: Related quotes loaded!", "Step 4/5: Random quote loaded!">>

CompleteText == "Complete! All data loaded successfully."

StatusErrorText ==
    <<"Error fetching quotes: ", "Error fetching author details: ",
      "Error fetching related quotes: ", "Error fetching random quote: ">>

NetworkErrorText ==
    <<"Network error while fetching quotes.", "Network error while fetching author details.",
      "Network error while fetching related quotes.",
      "Network error while fetching random quote.">>

\* The argument of handleError in the else branch of step K's onload.
StatusErrorMessage(K, status) == <<StatusErrorText[K], ToString(status)>>

\* The argument of handleError in step K's onerror.
NetworkErrorMessage(K) == <<NetworkErrorText[K]>>

LogEntry(message) == [level |-> "log", message |-> message]
ErrorEntry(message) == [level |-> "error", message |-> message]

-----------------------------------------------------------------------------
(* State after DOMContentLoaded.  The page markup is not among the sources; *)
(* nothing reads a section before resetDashboard has overwritten it.        *)

\* No response has been read yet in the current run.
NoResponse == [kind |-> "none", error |-> ""]

Init ==
    /\ dom = [progressFill |-> 0, progressText |-> "", btnDisabled |-> FALSE,
              btnText |-> "Fetch All Data", quotes |-> <<>>, authorInfo |-> <<>>,
              relatedQuotes |-> <<>>, randomQuote |-> <<>>]
    /\ console = <<>>
    /\ requests = {}
    /\ timers = {}
    /\ sent = <<>>
    /\ events = <<>>
    /\ progressLog = <<>>
    /\ rendered = {}
    /\ lastResponse = NoResponse
    /\ runs = 0

\* The closure of the run-th call of fetchQuotes, at step K.
Closure(K, topic, count, run) == [step |-> K, topic |-> topic, count |-> count, run |-> run]

\* The else branch of step K's onload: the page after handleError.
OnloadFailure(d, K, status) == HandleError(d, StatusErrorMessage(K, status))

\* An onerror handler that only logs and leaves the page alone.
OnerrorFailureLogOnly(d, K) == d

\* Step K's onerror: the page after handleError.
OnerrorFailure(d, K) == HandleError(d, NetworkErrorMessage(K))

\* A click listener that calls fetchQuotes without resetDashboard.
FetchQuotesBtnClickNoReset(selectedTopic, selectedCount) ==
    /\ ~dom.btnDisabled
    /\ runs < MaxRuns
    /\ runs' = runs + 1
    /\ requests' = requests \cup {Closure(1, selectedTopic, selectedCount, runs + 1)}
    /\ sent' = <<1>>
    /\ progressLog' = <<>>
    /\ console' = <<>>
    /\ events' = <<>>
    /\ rendered' = {}
    /\ lastResponse' = NoResponse
    /\ UNCHANGED <<dom, timers>>

\* Click on #fetchQuotesBtn.  A disabled button dispatches no click event, so
\* the listener runs only while button.disabled is false.
FetchQuotesBtnClick(selectedTopic, selectedCount) ==
    /\ ~dom.btnDisabled
    /\ runs < MaxRuns
    /\ runs' = runs + 1
    /\ dom' = ResetDashboard(dom)
    /\ requests' = requests \cup {Closure(1, selectedTopic, selectedCount, runs + 1)}
    /\ sent' = <<1>>
    /\ progressLog' = <<0>>
    /\ console' = <<>>
    /\ events' = <<>>
    /\ rendered' = {}
    /\ lastResponse' = NoResponse
    /\ UNCHANGED timers

\* A status test that takes every answered request for a success.
StatusOkAny(status) == status >= 200

\* The test of every onload handler: xhr.status === 200.
StatusOk(status) == status = 200

\* Checkpoints of a quarter per request.
CheckpointQuarter(K) == 25 * K

\* The percentage step K's onload passes to updateProgress.
Checkpoint(K) == 20 * K

\* Every display function assigning the section of the first one.
RenderIntoQuotes(d, K, html) == [d EXCEPT !.quotes = html]

\* The innerHTML assignment that ends step K's display function.
Render(d, K, html) == [d EXCEPT ![Sections[K]] = html]

\* The load event of the request of step c.step.
XhrOnload(c, status, xhrResponse) ==
    /\ c \in requests
    /\ requests' = requests \ {c}
    /\ events' = Append(events, [step |-> c.step, status |-> status])
    /\ IF StatusOk(status)
       THEN LET d1 == UpdateProgress(dom, Checkpoint(c.step), StepProgressText[c.step])
                shown == Display(c.step, xhrResponse, c.count)
            IN /\ console' = Append(console, LogEntry(<<StepLog[c.step], c.topic>>))
               /\ progressLog' = Append(progressLog, Checkpoint(c.step))
               /\ lastResponse' = [kind |-> xhrResponse.kind, error |-> xhrResponse.error]
               /\ IF shown.threw
                  THEN /\ dom' = d1
                       /\ UNCHANGED <<timers, rendered>>
                  ELSE /\ dom' = Render(d1, c.step, shown.html)
                       /\ rendered' = rendered \cup {c.step}
                       /\ timers' = timers \cup {c}
       ELSE /\ console' = Append(console, ErrorEntry(StatusErrorMessage(c.step, status)))
            /\ progressLog' = Append(progressLog, 0)
            /\ dom' = OnloadFailure(dom, c.step, status)
            /\ UNCHANGED <<timers, rendered, lastResponse>>
    /\ UNCHANGED <<sent, runs>>

\* An onerror handler that sends the request again instead of giving up.
XhrOnerrorRetry(c) ==
    /\ c \in requests
    /\ events' = Append(events, [step |-> c.step, status |-> 0])
    /\ console' = Append(console, ErrorEntry(NetworkErrorMessage(c.step)))
    /\ sent' = Append(sent, c.step)
    /\ UNCHANGED <<dom, requests, timers, progressLog, rendered, lastResponse, runs>>

\* The error event (transport failure) of the request of step c.step.
XhrOnerror(c) ==
    /\ c \in requests
    /\ requests' = requests \ {c}
    /\ events' = Append(events, [step |-> c.step, status |-> 0])
    /\ console' = Append(console, ErrorEntry(NetworkErrorMessage(c.step)))
    /\ progressLog' = Append(progressLog, 0)
    /\ dom' = OnerrorFailure(dom, c.step)
    /\ UNCHANGED <<timers, sent, rendered, lastResponse, runs>>

\* A delay timer that keeps firing (setInterval for setTimeout).
DelayTimerRepeating(c) ==
    /\ c \in timers
    /\ c.step < 4
    /\ requests' = requests \cup {Closure(c.step + 1, c.topic, c.count, c.run)}
    /\ sent' = Append(sent, c.step + 1)
    /\ UNCHANGED <<dom, console, events, progressLog, rendered, lastResponse, runs, timers>>

\* The delay timer scheduled by the onload of step 1, 2 or 3: sends the next request.
DelayTimer(c) ==
    /\ c \in timers
    /\ c.step < 4
    /\ timers' = timers \ {c}
    /\ requests' = requests \cup {Closure(c.step + 1, c.topic, c.count, c.run)}
    /\ sent' = Append(sent, c.step + 1)
    /\ UNCHANGED <<dom, console, events, progressLog, rendered, lastResponse, runs>>

\* The timer scheduled by the onload of step 4: the final processing step.
FinalStep(c) ==
    /\ c \in timers
    /\ c.step = 4
    /\ timers' = timers \ {c}
    /\ console' = Append(console, LogEntry(<<FinalLog>>))
    /\ progressLog' = Append(progressLog, 100)
    /\ dom' = EnableButton(UpdateProgress(dom, 100, CompleteText))
    /\ UNCHANGED <<requests, sent, events, rendered, lastResponse, runs>>

\* The payloads an onload handler tells apart: it reads xhr.response only when
\* the status test passes, so for the other statuses one payload stands for all.
ResponsesRead(status) ==
    IF StatusOk(status) THEN Payloads
    ELSE {[kind |-> "error", items |-> <<>>, error |-> "No quotes found"]}

Next ==
    \/ \E topic \in Topics, count \in Counts : FetchQuotesBtnClick(topic, count)
    \/ \E c \in requests, status \in Statuses :
          \E xhrResponse \in ResponsesRead(status) : XhrOnload(c, status, xhrResponse)
    \/ \E c \in requests : XhrOnerror(c)
    \/ \E c \in timers : DelayTimer(c)
    \/ \E c \in timers : FinalStep(c)

Spec == Init /\ [][Next]_vars

-----------------------------------------------------------------------------
(* Vocabulary of the properties *)

Last(s) == s[Len(s)]

\* A run has been started by a click.
Started == sent # <<>>

\* Nothing of the workflow is pending: no request outstanding, no timer scheduled.
Quiescent == requests = {} /\ timers = {}

\* The request of step K was answered by a load event with status 200.
Loaded200(K) == \E i \in DOMAIN events : events[i] = [step |-> K, status |-> 200]

\* handleError has run in the current run (its first statement is console.error).
ErrorPathRan == \E i \in DOMAIN console : console[i].level = "error"

\* The final processing step has run in the current run.
Completed == \E i \in DOMAIN console : console[i] = LogEntry(<<FinalLog>>)

\* The last event delivered is a failure: a load with another status than 200,
\* or an error event (recorded with status 0).
FailureDelivered == events # <<>> /\ Last(events).status # 200

\* The message the handler of a failure event passes to handleError.
FailureMessage(e) ==
    IF e.status = 0 THEN NetworkErrorMessage(e.step) ELSE StatusErrorMessage(e.step, e.status)

\* This step delivers a failure event.
FailureStep == Len(events') > Len(events) /\ Last(events').status # 200

\* The first lines of the console entries, in order.
Logged == [i \in DOMAIN console |-> console[i].message[1]]

-----------------------------------------------------------------------------
\* C1: in a run whose four requests all load with status 200, the progress
\* indicator takes 0, 20, 40, 60, 80, 100 in that order, each once, and the
\* steps are logged in the order 1, 2, 3, 4, 5.  Stated of the state in which
\* such a run has come to rest (nothing pending any more).
C1_ProgressCheckpoints ==
    (Quiescent /\ \A K \in Steps : Loaded200(K)) =>
        /\ progressLog = <<0, 20, 40, 60, 80, 100>>
        /\ Logged = StepLog \o <<FinalLog>>

\* C2: the request of step N+1 is sent only by the delay timer of step N, after
\* step N's onload saw status 200, set progress to 20*N and rendered section N;
\* the final step runs only from step 4's timer after step 4's success.
C2_Sends ==
    \A i \in DOMAIN sent : i > 1 =>
        /\ Loaded200(sent[i] - 1)
        /\ (sent[i] - 1) \in rendered

C2_SendStep ==
    /\ (Len(sent') > Len(sent) /\ Len(sent) > 0) =>
          \E c \in timers :
              /\ c \notin timers'
              /\ sent' = Append(sent, c.step + 1)
              /\ requests = {}
              /\ Loaded200(c.step)
              /\ dom.progressFill = 20 * c.step
              /\ c.step \in rendered
              /\ dom[Sections[c.step]] # SpinnerHtml
    /\ (Completed' /\ ~Completed) =>
          \E c \in timers :
              /\ c \notin timers'
              /\ c.step = 4
              /\ requests = {}
              /\ Loaded200(4)
              /\ dom.progressFill = 80
              /\ 4 \in rendered

C2_StrictlySequential == [](C2_Sends) /\ [][C2_SendStep]_vars

C2_Witness == Completed /\ sent = <<1, 2, 3, 4>>

-----------------------------------------------------------------------------
\* C3: when step K fails (another status than 200, or a transport error), the
\* sections K..4 go in that one step from the spinner to the error markup
\* holding the failure's message, were never rendered, the requests sent are
\* exactly those of steps 1..K, nothing is pending and the final step has not
\* run; the only step that leaves such a state starts a new run.
C3_AfterFailure ==
    FailureDelivered =>
        LET K == Last(events).step
        IN /\ sent = [i \in 1..K |-> i]
           /\ Quiescent
           /\ ~Completed
           /\ \A r \in K..4 :
                 /\ dom[Sections[r]] = ErrorDiv(FailureMessage(Last(events)))
                 /\ r \notin rendered

C3_FailureTransition ==
    /\ FailureStep =>
          \A r \in Last(events').step..4 :
              /\ dom[Sections[r]] = SpinnerHtml
              /\ dom'[Sections[r]] = ErrorDiv(FailureMessage(Last(events')))
    /\ FailureDelivered => (sent' = <<1>> /\ events' = <<>> /\ ~Completed')

C3_FailureHalts == [](C3_AfterFailure) /\ [][C3_FailureTransition]_vars

C3_Witness ==
    /\ FailureDelivered
    /\ Last(events) = [step |-> 3, status |-> 500]
    /\ dom.relatedQuotes = ErrorDiv(StatusErrorMessage(3, 500))
    /\ dom.randomQuote = ErrorDiv(StatusErrorMessage(3, 500))
    /\ rendered = {1, 2}

\* C4: a failure of step K leaves the sections that the completed steps 1..K-1
\* have rendered exactly as they were.
C4_RenderedUntouched ==
    [][FailureStep => \A r \in rendered : dom'[Sections[r]] = dom[Sections[r]]]_vars

\* C5: the button is disabled exactly while a run is in flight, that is while a
\* request is outstanding or a delay timer is pending.
C5_DisabledIffInFlight == dom.btnDisabled <=> (requests # {} \/ timers # {})

\* C6: every started run ends in a terminal state with the button enabled.
\* Every request is answered and every timer fires, so a run comes to rest;
\* stated of the state of rest: it is the completed state (progress 100) or the
\* error state, and the button is enabled.
C6_RestIsTerminal ==
    (Started /\ Quiescent) =>
        /\ (Completed /\ dom.progressFill = 100) \/ ErrorPathRan
        /\ ~dom.btnDisabled

\* C7: every run of handleError leaves progress 0, the fixed status text, the
\* button enabled, and the error markup with the logged message in every
\* section that held the spinner; no section holds the spinner afterwards.
C7_HandleErrorStep ==
    (Len(console') > Len(console) /\ Last(console').level = "error") =>
        /\ dom'.progressFill = 0
        /\ dom'.progressText = ErrorStatusText
        /\ ~dom'.btnDisabled
        /\ \A r \in Steps :
              /\ dom[Sections[r]] = SpinnerHtml =>
                    dom'[Sections[r]] = ErrorDiv(Last(console').message)
              /\ dom'[Sections[r]] # SpinnerHtml

C7_ErrorPathResult == [][C7_HandleErrorStep]_vars

C7_Witness ==
    /\ ErrorPathRan
    /\ progressLog = <<0, 20, 40, 0>>
    /\ dom.progressFill = 0
    /\ ~dom.btnDisabled
    /\ dom.randomQuote = ErrorDiv(NetworkErrorMessage(3))

\* C8: when all four requests of a run have loaded with status 200, the run
\* ends with progress 100, the fixed complete text and the button enabled.
C8_SuccessEnd ==
    (Quiescent /\ \A K \in Steps : Loaded200(K)) =>
        /\ dom.progressFill = 100
        /\ dom.progressText = CompleteText
        /\ ~dom.btnDisabled

\* C9: in a run the requests sent are those of steps 1, 2, ... in order, each
\* once and at most four; at most one request is outstanding, it is the one
\* sent last, and no request is answered twice.
C9_NoRetryNoParallel ==
    /\ Len(sent) <= 4
    /\ \A i \in DOMAIN sent : sent[i] = i
    /\ Cardinality(requests) <= 1
    /\ \A c \in requests : Len(sent) > 0 /\ c.step = Last(sent)
    /\ Len(events) + Cardinality(requests) = Len(sent)
    /\ \A i \in DOMAIN events : events[i].step = i

C9_Witness == sent = <<1, 2, 3, 4>> /\ requests # {} /\ Len(events) = 3

\* C10: a failure of step K by status and a failure of step K by transport
\* error lead to the same state but for the message text: every step that
\* delivers a failure of either kind yields the page of the status branch and
\* the page of the error handler once the messages are blanked, with progress
\* 0, the fixed text and the button enabled, and changes nothing else than
\* the answered request.
Blank(d, message) ==
    LET b(content) == IF content = ErrorDiv(message) THEN ErrorDiv(<<>>) ELSE content
    IN [d EXCEPT !.quotes = b(@), !.authorInfo = b(@),
                 !.relatedQuotes = b(@), !.randomQuote = b(@)]

C10_FailureStep ==
    FailureStep =>
        LET e == Last(events')
            after == Blank(dom', FailureMessage(e))
        IN /\ \A status \in Statuses \ {200} :
                 after = Blank(OnloadFailure(dom, e.step, status),
                               StatusErrorMessage(e.step, status))
           /\ after = Blank(OnerrorFailure(dom, e.step), NetworkErrorMessage(e.step))
           /\ after.progressFill = 0
           /\ after.progressText = ErrorStatusText
           /\ ~after.btnDisabled
           /\ Cardinality(requests) = Cardinality(requests') + 1
           /\ UNCHANGED <<timers, sent, rendered>>

C10_FailureKindsAgree == [][C10_FailureStep]_vars

C10_Witness ==
    /\ FailureDelivered
    /\ Last(events) = [step |-> 2, status |-> 0]
    /\ rendered = {1}
    /\ dom.authorInfo = ErrorDiv(NetworkErrorMessage(2))
    /\ dom.quotes # ErrorDiv(NetworkErrorMessage(2))

-----------------------------------------------------------------------------
(* Vocabulary of the properties on runs and continuations *)

\* The continuations of the workflow that are pending.
Pending == requests \cup timers

\* This step is a click that starts a run.
ClickStep == runs' # runs

\* The click listener can run.
ClickEnabled == ENABLED (\E topic \in Topics, count \in Counts : FetchQuotesBtnClick(topic, count))

\* This step is a handler of the workflow (a load, error or timer event).
HandlerStep == runs' = runs /\ vars' # vars

\* The continuation c is the only one pending and this step consumes it.
Consumes(c) ==
    \/ requests = {c} /\ timers = {} /\ c \notin requests'
    \/ timers = {c} /\ requests = {} /\ c \notin timers'

AllSpinners(d) == \A r \in Steps : d[Sections[r]] = SpinnerHtml

-----------------------------------------------------------------------------
\* C11: at most one continuation is pending at any time, a request or a timer,
\* never both and never two of either; every step that writes the page or the
\* logs outside a click is the handler of that one continuation, consumes it,
\* and writes the progress of its step (or 0 on the error path, 100 at the end).
C11_OnePending == Cardinality(requests) + Cardinality(timers) <= 1

C11_ActiveHandler ==
    HandlerStep =>
        \E c \in Pending :
            /\ Consumes(c)
            /\ Cardinality(requests') + Cardinality(timers') <= 1
            /\ dom'.progressFill # dom.progressFill =>
                  dom'.progressFill \in {0, 20 * c.step, 100}

C11_SingleContinuation == [](C11_OnePending) /\ [][C11_ActiveHandler]_vars

C11_Witness == timers # {} /\ requests = {} /\ sent = <<1, 2>> /\ rendered = {1, 2}

\* C12 as claimed: while a run is in flight the trigger can fire and start a
\* second run.
C12_ClickWhileInFlight == (Pending # {} /\ runs < MaxRuns) => ClickEnabled

\* C12 as amended: the trigger cannot fire while a run is in flight.  Whenever
\* the click listener can run nothing is pending, every click happens with
\* nothing pending, and the pending continuations all belong to one run.
C12_ClickOnlyAtRest ==
    /\ ClickEnabled => Quiescent
    /\ \A c1 \in Pending, c2 \in Pending : c1.run = c2.run

C12_OneRunInFlight == [](C12_ClickOnlyAtRest) /\ [][ClickStep => Quiescent]_vars

C12_Witness ==
    /\ runs = 2
    /\ \E c \in requests : c.run = 2 /\ c.step = 3
    /\ dom.btnDisabled

\* C13: the progress value is always one of 0, 20, 40, 60, 80, 100, and every
\* change of it is an increase by exactly 20 or a reset to 0.
C13_ProgressValues == dom.progressFill \in {0, 20, 40, 60, 80, 100}

C13_ProgressChange ==
    dom'.progressFill # dom.progressFill =>
        \/ dom'.progressFill = dom.progressFill + 20
        \/ dom'.progressFill = 0

C13_ProgressForwardOrReset == [](C13_ProgressValues) /\ [][C13_ProgressChange]_vars

C13_Witness == runs = 2 /\ dom.progressFill = 60 /\ progressLog = <<0, 20, 40, 60>>

\* C14: a click starts a run only from the initial state or a terminal state,
\* and leaves all four sections with the spinner, progress 0 and the button
\* disabled, with the first request sent; while the first request of a run is
\* outstanding every section holds the spinner.
C14_FirstRequestOutstanding ==
    (\E c \in requests : c.step = 1) =>
        /\ AllSpinners(dom)
        /\ dom.progressFill = 0
        /\ dom.btnDisabled

C14_ClickResets ==
    ClickStep =>
        /\ ~Started \/ Completed \/ ErrorPathRan
        /\ AllSpinners(dom')
        /\ dom'.progressFill = 0
        /\ dom'.progressText = "Starting to fetch data..."
        /\ dom'.btnDisabled
        /\ \E c \in requests' : requests' = {c} /\ c.step = 1 /\ c.run = runs'
        /\ timers' = {}

C14_RunStartsClean == [](C14_FirstRequestOutstanding) /\ [][C14_ClickResets]_vars

C14_Witness ==
    /\ runs = 2
    /\ sent = <<1>>
    /\ \E c \in requests : c.step = 1 /\ c.run = 2
    /\ AllSpinners(dom)

-----------------------------------------------------------------------------
\* This step delivers a load event with status 200.
SuccessStep == Len(events') > Len(events) /\ Last(events').status = 200

\* The markup holds the error block with exactly this text.
ShowsError(html, text) ==
    \E i \in 1..(Len(html) - 2) : SubSeq(html, i, i + 2) = ErrorDiv(<<text>>)

\* The onload step of a status-200 response that is an error object with one of
\* these texts stays off the error path, sets progress to 20*K, shows the text
\* in section K, keeps the button disabled and schedules the timer to step K+1.
ErrorObjectStep(texts) ==
    (SuccessStep /\ lastResponse'.kind = "error" /\ lastResponse'.error \in texts) =>
        LET K == Last(events').step
        IN /\ ~ErrorPathRan'
           /\ dom'.progressFill = 20 * K
           /\ ShowsError(dom'[Sections[K]], lastResponse'.error)
           /\ dom'.btnDisabled
           /\ requests' = {}
           /\ \E c \in timers' : timers' = {c} /\ c.step = K

C16_RenderedUpToProgress ==
    (Started /\ ~ErrorPathRan /\ dom.progressFill \in {20, 40, 60, 80}) =>
        \A r \in Steps :
            IF 20 * r <= dom.progressFill
            THEN r \in rendered /\ dom[Sections[r]] # SpinnerHtml
            ELSE r \notin rendered /\ dom[Sections[r]] = SpinnerHtml

\* C17: the onload of step K with status 200 changes nothing of the page but
\* section K and the progress bar and text; the final step changes no section.
C17_SuccessWrites ==
    /\ SuccessStep =>
          LET K == Last(events').step
          IN /\ \A r \in Steps \ {K} : dom'[Sections[r]] = dom[Sections[r]]
             /\ dom'.btnDisabled = dom.btnDisabled
             /\ dom'.btnText = dom.btnText
             /\ dom'.progressFill = 20 * K
    /\ (Completed' /\ ~Completed) =>
          \A r \in Steps : dom'[Sections[r]] = dom[Sections[r]]

C17_SuccessFrame == [][C17_SuccessWrites]_vars

C17_Witness ==
    /\ Completed
    /\ lastResponse.kind = "list"
    /\ dom.progressFill = 100
    /\ \A r \in Steps : r \in rendered /\ dom[Sections[r]] # SpinnerHtml

\* C18: handleError runs at most once in a run; a run is never both completed
\* and failed; once handleError has run nothing is pending, its entry is the
\* last of the console, and the only step that follows starts a new run.
ErrorEntries == {i \in DOMAIN console : console[i].level = "error"}

C18_AfterErrorPath ==
    /\ Cardinality(ErrorEntries) <= 1
    /\ ~(Completed /\ ErrorPathRan)
    /\ ErrorPathRan =>
          /\ Quiescent
          /\ Last(console).level = "error"
          /\ Last(progressLog) = 0
          /\ dom.progressFill = 0

C18_ErrorPathOnce ==
    [](C18_AfterErrorPath) /\ [][(ErrorPathRan /\ vars' # vars) => ClickStep]_vars

C18_Witness == ErrorPathRan /\ Len(events) = 4 /\ rendered = {1, 2, 3}

\* C19: in a terminal state (completed or failed) no section holds the
\* spinner: each holds what its display function rendered or the error block
\* with the failure's message.
C19_NoSpinnerAtEnd ==
    (Completed \/ ErrorPathRan) =>
        \A r \in Steps :
            /\ ~Includes(dom[Sections[r]], {SpinnerHtml[1]})
            /\ \/ r \in rendered
               \/ ErrorPathRan /\ dom[Sections[r]] = ErrorDiv(Last(console).message)

C19_Witness ==
    /\ ErrorPathRan
    /\ rendered = {1}
    /\ dom.quotes # ErrorDiv(Last(console).message)
    /\ dom.randomQuote = ErrorDiv(StatusErrorMessage(2, 404))

\* C20: whenever the button is enabled nothing is pending; every pending
\* continuation, and so every handler that runs, belongs to the run started
\* last.
C20_PendingOfLastRun ==
    /\ ~dom.btnDisabled => Quiescent
    /\ \A c \in Pending : c.run = runs

C20_HandlerOfLastRun ==
    HandlerStep => \E c \in Pending : Consumes(c) /\ c.run = runs

C20_NoStaleCallback == [](C20_PendingOfLastRun) /\ [][C20_HandlerOfLastRun]_vars

C20_Witness == runs = 2 /\ Completed /\ ~dom.btnDisabled /\ Quiescent

-----------------------------------------------------------------------------
\* The quote records shown by the quote-item blocks of the markup, in order:
\* each block is read back from its opening tag, its quote text and its source.
RECURSIVE QuoteItemsIn(_)
QuoteItemsIn(html) ==
    IF html = <<>> THEN <<>>
    ELSE IF Head(html) = "<div class=\"quote-item\">" /\ Len(html) >= 8
         THEN <<[quote |-> html[3], source |-> html[6]]>>
                  \o QuoteItemsIn(SubSeq(html, 9, Len(html)))
    ELSE QuoteItemsIn(Tail(html))

\* The payloads that are arrays of quote records.
ListPayloads == {p \in Payloads : p.kind = "list"}

Min(a, b) == IF a < b THEN a ELSE b

\* C21: for every list payload of n quotes, the onload of step 3 with status
\* 200 leaves in #relatedQuotes exactly min(2, n) quote items, and they are
\* the first min(2, n) quotes of the payload in payload order.
C21_RelatedStep ==
    \A c \in requests, p \in ListPayloads :
        (c.step = 3 /\ XhrOnload(c, 200, p)) =>
            LET shown == QuoteItemsIn(dom'.relatedQuotes)
                n == Len(p.items)
            IN /\ Len(shown) = Min(2, n)
               /\ \A i \in 1..Len(shown) : shown[i] = p.items[i]

C21_RelatedFirstTwo == [][C21_RelatedStep]_vars

\* Step 3 rendered two different quotes, in the order they are displayed.
C21_Witness ==
    /\ 3 \in rendered
    /\ 4 \notin rendered
    /\ lastResponse.kind = "list"
    /\ Len(events) = 3
    /\ Len(QuoteItemsIn(dom.relatedQuotes)) = 2
    /\ QuoteItemsIn(dom.relatedQuotes)[1] # QuoteItemsIn(dom.relatedQuotes)[2]

\* C22: for every list payload, the onload of step 4 with status 200 leaves
\* in #randomQuote exactly one quote item, the last element of the payload,
\* when the list is not empty, and no quote item when it is empty; in both
\* cases the step succeeds: the section is rendered, progress is 80, no error
\* path runs and the timer of the final step is scheduled.
C22_RandomStep ==
    \A c \in requests, p \in ListPayloads :
        (c.step = 4 /\ XhrOnload(c, 200, p)) =>
            LET shown == QuoteItemsIn(dom'.randomQuote)
            IN /\ shown = IF p.items = <<>> THEN <<>> ELSE <<Last(p.items)>>
               /\ 4 \in rendered'
               /\ dom'.randomQuote # SpinnerHtml
               /\ dom'.progressFill = 80
               /\ ~ErrorPathRan'
               /\ requests' = {}
               /\ timers' = {c}

C22_RandomIsLast == [][C22_RandomStep]_vars

\* Step 4 read a list and rendered one quote item, and the run went on to
\* completion.
C22_Witness ==
    /\ Completed
    /\ 4 \in rendered
    /\ lastResponse.kind = "list"
    /\ dom.progressFill = 100
    /\ QuoteItemsIn(dom.randomQuote) =
           <<[quote |-> "Life is a spinner", source |-> "DJ spinner"]>>

=============================================================================
